---- MODULE Spec2Model ----
(***************************************************************************)
(* A model of the StudentChatbot of src/src/backend/chatbot.py together    *)
(* with the MemoryManager (memory_manager.py) and CalendarIntegration      *)
(* (calendar_integration.py) wrappers it calls.                            *)
(*                                                                         *)
(* Messages and replies are strings.  The emoji the source puts in some of *)
(* its literals are left out of the literals here (the module is ASCII).   *)
(***************************************************************************)
EXTENDS Integers, Sequences, FiniteSets, TLC

VARIABLES
    conversation_history, \* StudentChatbot.conversation_history: user -> list of Turns
    service,              \* CalendarIntegration.service is established
    client,               \* StudentChatbot.client is not None
    memory,               \* MemoryManager.memory is not None
    pc,                   \* per thread: where its chat call stands
    frame,                \* per thread: the locals of its chat call
    held,                 \* per thread: the list object _add_to_history looked up
    trace,                \* per thread: what the current chat call did so far
    log,                  \* per user: the Turns appended on behalf of that user
    now,                  \* the clock read by datetime.now()
    ncalls,               \* number of chat calls begun
    last_op,              \* the last completed API call and its result
    message,              \* input of _detect_intent (classifier specification)
    intent                \* result of _detect_intent (classifier specification)

vars == <<conversation_history, service, client, memory, pc, frame, held, trace,
          log, now, ncalls, last_op, message, intent>>

chatVars == <<conversation_history, service, client, memory, pc, frame, held, trace,
              log, now, ncalls, last_op>>

----------------------------------------------------------------------------
(* Bounds *)

MaxCalls == 2        \* chat calls begun in one behaviour
MaxFragments == 2    \* fragments concatenated into a classifier input

----------------------------------------------------------------------------
(* Strings: str.lower() and the `in` substring test *)

\* str.lower() on one character (ASCII letters; every other character is kept)
LowerChar(c) ==
    CASE c = "A" -> "a" [] c = "B" -> "b" [] c = "C" -> "c" [] c = "D" -> "d"
      [] c = "E" -> "e" [] c = "F" -> "f" [] c = "G" -> "g" [] c = "H" -> "h"
      [] c = "I" -> "i" [] c = "J" -> "j" [] c = "K" -> "k" [] c = "L" -> "l"
      [] c = "M" -> "m" [] c = "N" -> "n" [] c = "O" -> "o" [] c = "P" -> "p"
      [] c = "Q" -> "q" [] c = "R" -> "r" [] c = "S" -> "s" [] c = "T" -> "t"
      [] c = "U" -> "u" [] c = "V" -> "v" [] c = "W" -> "w" [] c = "X" -> "x"
      [] c = "Y" -> "y" [] c = "Z" -> "z" [] OTHER -> c

RECURSIVE LowerFrom(_, _)
LowerFrom(s, i) ==
    IF i > Len(s) THEN "" ELSE LowerChar(SubSeq(s, i, i)) \o LowerFrom(s, i + 1)

\* message.lower()
Lower(s) == LowerFrom(s, 1)

\* `keyword in s`
Contains(s, keyword) ==
    \E i \in 1..(Len(s) - Len(keyword) + 1) :
        SubSeq(s, i, i + Len(keyword) - 1) = keyword

\* any(keyword in s for keyword in keywords)
AnyIn(keywords, s) == \E k \in keywords : Contains(s, k)

----------------------------------------------------------------------------
(* _detect_intent *)

calendar_keywords ==
    {"schedule", "meeting", "calendar", "event", "appointment",
     "today", "tomorrow", "this week", "next week", "when is"}

memory_keywords ==
    {"remember", "i prefer", "my favorite", "i like", "i usually",
     "note that", "keep in mind"}

recall_keywords ==
    {"what do you know about me", "what have i told you",
     "my preferences", "what do i like", "remind me"}

\* mutant: the message is matched as typed, not lower-cased
MessageLowerAsTyped(m) == m

message_lower(m) == Lower(m)

\* mutant: the memory keywords are tried before the calendar keywords
DetectIntentMemoryFirst(m) ==
    IF AnyIn(memory_keywords, message_lower(m)) THEN "store_memory"
    ELSE IF AnyIn(calendar_keywords, message_lower(m)) THEN "calendar_query"
    ELSE IF AnyIn(recall_keywords, message_lower(m)) THEN "recall_memory"
    ELSE "general_conversation"

\* mutant: the recall keywords are tried before the memory keywords
DetectIntentRecallFirst(m) ==
    IF AnyIn(calendar_keywords, message_lower(m)) THEN "calendar_query"
    ELSE IF AnyIn(recall_keywords, message_lower(m)) THEN "recall_memory"
    ELSE IF AnyIn(memory_keywords, message_lower(m)) THEN "store_memory"
    ELSE "general_conversation"

_detect_intent(m) ==
    IF AnyIn(calendar_keywords, message_lower(m)) THEN "calendar_query"
    ELSE IF AnyIn(memory_keywords, message_lower(m)) THEN "store_memory"
    ELSE IF AnyIn(recall_keywords, message_lower(m)) THEN "recall_memory"
    ELSE "general_conversation"

----------------------------------------------------------------------------
(* Results of calls: a value returned or an exception raised *)

Return(v) == [kind |-> "return", value |-> v]
Raise(e) == [kind |-> "raise", err |-> e]

\* dict.get(key, default)
Get(d, key, default) == IF key \in DOMAIN d THEN d[key] ELSE default

----------------------------------------------------------------------------
(* CalendarIntegration.format_event and format_events_list *)

Digits == {"0", "1", "2", "3", "4", "5", "6", "7", "8", "9"}

DigitVal(c) ==
    CASE c = "0" -> 0 [] c = "1" -> 1 [] c = "2" -> 2 [] c = "3" -> 3
      [] c = "4" -> 4 [] c = "5" -> 5 [] c = "6" -> 6 [] c = "7" -> 7
      [] c = "8" -> 8 [] c = "9" -> 9

DigitStr(n) ==
    CASE n = 0 -> "0" [] n = 1 -> "1" [] n = 2 -> "2" [] n = 3 -> "3"
      [] n = 4 -> "4" [] n = 5 -> "5" [] n = 6 -> "6" [] n = 7 -> "7"
      [] n = 8 -> "8" [] n = 9 -> "9"

\* str(n) for a natural number
RECURSIVE Str(_)
Str(n) == IF n < 10 THEN DigitStr(n) ELSE Str(n \div 10) \o DigitStr(n % 10)

\* a number printed on two digits (%I, %M)
TwoDigits(n) == DigitStr(n \div 10) \o DigitStr(n % 10)

\* datetime.fromisoformat(s.replace('Z', '+00:00')): the hour and minute of
\* "YYYY-MM-DDTHH:MM:SS" followed by "Z" or an offset; ValueError otherwise.
fromisoformat(s) ==
    IF /\ Len(s) >= 19
       /\ SubSeq(s, 11, 11) = "T"
       /\ SubSeq(s, 14, 14) = ":"
       /\ \A i \in {12, 13, 15, 16} : SubSeq(s, i, i) \in Digits
       /\ 10 * DigitVal(SubSeq(s, 12, 12)) + DigitVal(SubSeq(s, 13, 13)) < 24
       /\ 10 * DigitVal(SubSeq(s, 15, 15)) + DigitVal(SubSeq(s, 16, 16)) < 60
    THEN Return([hour |-> 10 * DigitVal(SubSeq(s, 12, 12)) + DigitVal(SubSeq(s, 13, 13)),
                 minute |-> 10 * DigitVal(SubSeq(s, 15, 15)) + DigitVal(SubSeq(s, 16, 16))])
    ELSE Raise("Invalid isoformat string: '" \o s \o "'")

\* t.strftime('%I:%M %p')
strftime(t) ==
    TwoDigits(IF t.hour % 12 = 0 THEN 12 ELSE t.hour % 12) \o ":" \o
    TwoDigits(t.minute) \o (IF t.hour < 12 THEN " AM" ELSE " PM")

\* the time line of format_event, or the exception its computation raises
time_str(event) ==
    LET start == Get(event, "start", <<>>)
        end == Get(event, "end", <<>>)
    IN  IF "dateTime" \in DOMAIN start
        THEN IF fromisoformat(start["dateTime"]).kind = "raise"
             THEN fromisoformat(start["dateTime"])
             ELSE IF "dateTime" \notin DOMAIN end
             THEN Raise("'dateTime'")
             ELSE IF fromisoformat(end["dateTime"]).kind = "raise"
             THEN fromisoformat(end["dateTime"])
             ELSE Return(strftime(fromisoformat(start["dateTime"]).value) \o " - " \o
                         strftime(fromisoformat(end["dateTime"]).value))
        ELSE Return("All day (" \o Get(start, "date", "N/A") \o ")")

DescriptionLimit == 100

\* mutant: a long description is cut without the ellipsis
TruncatedNoEllipsis(description) ==
    IF Len(description) > DescriptionLimit
    THEN SubSeq(description, 1, DescriptionLimit)
    ELSE description

\* `description[:100] + "..." if len(description) > 100 else description`
truncated(description) ==
    IF Len(description) > DescriptionLimit
    THEN SubSeq(description, 1, DescriptionLimit) \o "..."
    ELSE description

format_event(event) ==
    LET summary == Get(event, "summary", "No Title")
        location == Get(event, "location", "No location")
        description == Get(event, "description", "No description")
        desc == truncated(description)
    IN  IF time_str(event).kind = "raise"
        THEN "Error formatting event: " \o time_str(event).err
        ELSE "** " \o summary \o "**\n" \o
             "   " \o time_str(event).value \o "\n" \o
             (IF location # "No location" THEN "   @ " \o location \o "\n" ELSE "") \o
             (IF description # "No description" /\ description # ""
              THEN "   # " \o desc \o "\n" ELSE "")

RECURSIVE FormatEntries(_, _)
FormatEntries(events, i) ==
    IF i > Len(events) THEN ""
    ELSE Str(i) \o ". " \o format_event(events[i]) \o "\n" \o FormatEntries(events, i + 1)

\* mutant: an empty list is formatted like any other
FormatEventsListNoEmptyCheck(events) ==
    "Found " \o Str(Len(events)) \o " event(s):\n\n" \o FormatEntries(events, 1)

format_events_list(events) ==
    IF events = <<>> THEN "No upcoming events found."
    ELSE "Found " \o Str(Len(events)) \o " event(s):\n\n" \o FormatEntries(events, 1)

----------------------------------------------------------------------------
(* Inputs and the answers of the external services *)

Users == {"u1", "u2"}
Threads == {"t1", "t2"}

\* messages sent to chat: one per intent
ChatMessages ==
    {"What are my meetings today?",
     "Remember that I like mornings",
     "What do you know about me?",
     "Tell me a joke"}

\* what the calendar service holds
EventLists ==
    {<<>>,
     <<[summary |-> "Lecture",
        start |-> [dateTime |-> "2024-01-15T09:00:00Z"],
        end |-> [dateTime |-> "2024-01-15T13:30:00Z"],
        location |-> "Room 1"],
       [start |-> [date |-> "2024-01-16"], end |-> [date |-> "2024-01-17"],
        description |-> "Holiday"]>>}

\* service.events().list(...).execute(): the items, an HttpError, or another exception
EventsListOutcomes ==
    {Return(l) : l \in EventLists} \cup
    {[kind |-> "http_error", err |-> "HttpError 500"], Raise("timed out")}

\* what the memory service answers to get_all and search
MemoryLists ==
    {<<>>,
     <<[memory |-> "Prefers mornings"], [id |-> "m2"]>>}

MemoryListOutcomes == {Return(l) : l \in MemoryLists} \cup {Raise("mem0 unavailable")}
MemoryAddOutcomes == {Return("added"), Raise("mem0 unavailable")}

\* client.chat.completions.create(...): the text of the first choice, or an exception
LLMOutcomes == {Return("Happy to help!"), Raise("rate limit")}

\* the failure of a call to an external client, if any: nothing when the wrapper
\* did not reach the client or the client answered, else the call, the kind and
\* the message of the exception the client raised
Failed(call, reached, outcome) ==
    IF reached /\ outcome.kind # "return"
    THEN <<[call |-> call, kind |-> outcome.kind, err |-> outcome.err]>>
    ELSE <<>>

----------------------------------------------------------------------------
(* MemoryManager *)

\* add_memory: the dict it returns
add_memory(outcome) ==
    IF ~memory THEN [error |-> "Memory system not initialized"]
    ELSE IF outcome.kind = "raise" THEN [success |-> FALSE, error |-> outcome.err]
    ELSE [success |-> TRUE, result |-> outcome.value,
          message |-> "Memory stored successfully"]

\* get_memories: the list it returns
get_memories(outcome) ==
    IF ~memory THEN <<>>
    ELSE IF outcome.kind = "raise" THEN <<>>
    ELSE outcome.value

\* search_memories: the list it returns
search_memories(outcome) ==
    IF ~memory THEN <<>>
    ELSE IF outcome.kind = "raise" THEN <<>>
    ELSE outcome.value

----------------------------------------------------------------------------
(* CalendarIntegration.get_events *)

\* mutant: get_events has no except clause for HttpError
GetEventsHttpEscapes(established, outcome) ==
    IF ~established THEN Return(<<>>)
    ELSE IF outcome.kind = "http_error" THEN Raise(outcome.err)
    ELSE outcome

\* get_events: the list it returns, or the exception it lets through
get_events(established, outcome) ==
    IF ~established THEN Return(<<>>)
    ELSE IF outcome.kind = "http_error" THEN Return(<<>>)
    ELSE outcome

----------------------------------------------------------------------------
(* The replies of the handlers *)

\* StudentChatbot.system_prompt (its first line; the rest of the literal is fixed text)
system_prompt == "You are a helpful AI assistant for students."

AuthApology ==
    "I'm having trouble accessing your calendar. Please ensure you've granted permission and try again."

LLMUnavailable ==
    "I'm currently unable to generate responses. Please check the OpenAI API configuration."

StorageAck ==
    "Got it! I've made a note of that and will remember it for future conversations."

StorageRetry ==
    "I tried to remember that, but encountered an issue. Could you try rephrasing?"

NothingStored ==
    "I don't have any stored information about you yet. Feel free to share your preferences, and I'll remember them!"

\* mutant: 'tomorrow' is tried before 'week'
SelectWindowTomorrowFirst(m) ==
    IF Contains(Lower(m), "today")
    THEN [method |-> "get_today_events", window |-> "today", max_results |-> 10,
          time_frame |-> "today"]
    ELSE IF Contains(Lower(m), "tomorrow")
    THEN [method |-> "get_events", window |-> "tomorrow", max_results |-> 10,
          time_frame |-> "tomorrow"]
    ELSE IF Contains(Lower(m), "this week") \/ Contains(Lower(m), "week")
    THEN [method |-> "get_week_events", window |-> "next_7_days", max_results |-> 50,
          time_frame |-> "this week"]
    ELSE [method |-> "get_week_events", window |-> "next_7_days", max_results |-> 50,
          time_frame |-> "upcoming"]

\* mutant: the default branch calls get_events with its default arguments
SelectWindowDefaultPlain(m) ==
    IF Contains(Lower(m), "today")
    THEN [method |-> "get_today_events", window |-> "today", max_results |-> 10,
          time_frame |-> "today"]
    ELSE IF Contains(Lower(m), "this week") \/ Contains(Lower(m), "week")
    THEN [method |-> "get_week_events", window |-> "next_7_days", max_results |-> 50,
          time_frame |-> "this week"]
    ELSE IF Contains(Lower(m), "tomorrow")
    THEN [method |-> "get_events", window |-> "tomorrow", max_results |-> 10,
          time_frame |-> "tomorrow"]
    ELSE [method |-> "get_events", window |-> "next_7_days", max_results |-> 10,
          time_frame |-> "upcoming"]

\* _handle_calendar_query: the branch picked for the message, with the method it
\* calls, the window and max_results of the fetch, and the time frame reported
select_window(m) ==
    IF Contains(Lower(m), "today")
    THEN [method |-> "get_today_events", window |-> "today", max_results |-> 10,
          time_frame |-> "today"]
    ELSE IF Contains(Lower(m), "this week") \/ Contains(Lower(m), "week")
    THEN [method |-> "get_week_events", window |-> "next_7_days", max_results |-> 50,
          time_frame |-> "this week"]
    ELSE IF Contains(Lower(m), "tomorrow")
    THEN [method |-> "get_events", window |-> "tomorrow", max_results |-> 10,
          time_frame |-> "tomorrow"]
    ELSE [method |-> "get_week_events", window |-> "next_7_days", max_results |-> 50,
          time_frame |-> "upcoming"]

ScheduleClear(time_frame) ==
    "You don't have any events scheduled for " \o time_frame \o ". Your schedule is clear!"

\* mutant: the hint line is appended whatever the search returned
CalendarResponseAlwaysHint(time_frame, events, memories) ==
    "Here are your events for " \o time_frame \o ":\n\n" \o
    format_events_list(events) \o
    "\nBased on your preferences: " \o
    (IF memories # <<>> THEN Get(memories[1], "memory", "") ELSE "")

\* the reply of _handle_calendar_query when events were found
calendar_response(time_frame, events, memories) ==
    "Here are your events for " \o time_frame \o ":\n\n" \o
    format_events_list(events) \o
    (IF memories # <<>>
     THEN "\nBased on your preferences: " \o Get(memories[1], "memory", "")
     ELSE "")

\* mutant: _handle_calendar_query without its except clause
CalendarExceptMissing(r) == r

\* the except clause of _handle_calendar_query
calendar_except(r) ==
    IF r.kind = "raise"
    THEN Return("I encountered an error while accessing your calendar: " \o r.err)
    ELSE r

\* mutant: a result without a success flag is taken for a success
StorageAckUnlessFailed(result) ==
    IF Get(result, "success", TRUE) THEN StorageAck ELSE StorageRetry

\* the reply of _handle_memory_storage
memory_storage_response(result) ==
    IF Get(result, "success", FALSE) THEN StorageAck ELSE StorageRetry

RECURSIVE RecallEntries(_, _)
RecallEntries(memories, i) ==
    IF i > Len(memories) THEN ""
    ELSE Str(i) \o ". " \o Get(memories[i], "memory", "N/A") \o "\n" \o
         RecallEntries(memories, i + 1)

\* mutant: the list is rendered without looking whether it is empty
RecallWithoutEmptyCheck(memories) ==
    "Here's what I remember about you:\n\n" \o RecallEntries(memories, 1) \o
    "\nIs there anything else you'd like me to know?"

\* the reply of _handle_memory_recall
memory_recall_response(memories) ==
    IF memories = <<>> THEN NothingStored
    ELSE "Here's what I remember about you:\n\n" \o RecallEntries(memories, 1) \o
         "\nIs there anything else you'd like me to know?"

RECURSIVE MemoryBullets(_, _)
MemoryBullets(memories, i) ==
    IF i > Len(memories) THEN ""
    ELSE "- " \o Get(memories[i], "memory", "") \o "\n" \o MemoryBullets(memories, i + 1)

\* memory_context of _generate_ai_response
memory_context(memories) ==
    IF memories = <<>> THEN ""
    ELSE "\n\nRelevant information about the user:\n" \o MemoryBullets(memories, 1)

HistoryWindow == 5

\* mutant: the whole list is taken
LastTurnsAll(list) == list

\* list[-5:]
LastTurns(list) ==
    SubSeq(list, IF Len(list) > HistoryWindow THEN Len(list) - HistoryWindow + 1 ELSE 1,
           Len(list))

RECURSIVE HistoryMessages(_, _)
HistoryMessages(history, i) ==
    IF i > Len(history) THEN <<>>
    ELSE (IF history[i].role \in {"user", "assistant"}
          THEN <<[role |-> history[i].role, content |-> history[i].content]>>
          ELSE <<>>) \o HistoryMessages(history, i + 1)

\* the messages _generate_ai_response sends to the LLM
llm_messages(memories, list, m) ==
    <<[role |-> "system", content |-> system_prompt \o memory_context(memories)]>> \o
    HistoryMessages(LastTurns(list), 1) \o
    <<[role |-> "user", content |-> m]>>

\* mutant: _generate_ai_response without its except clause
GenerateExceptMissing(r) == r

\* the except clause of _generate_ai_response
generate_except(r) ==
    IF r.kind = "raise"
    THEN Return("I encountered an error generating a response: " \o r.err)
    ELSE r

\* chat: the response built from the handlers' replies
chat_response(intent_, memory_response, ai_response) ==
    IF intent_ = "store_memory" THEN memory_response \o "\n\n" \o ai_response
    ELSE ai_response

----------------------------------------------------------------------------
(* The state *)

NoOp == [op |-> "none"]

\* the locals of a chat call that has not begun
NoFrame ==
    [user_id |-> "", message |-> "", intent |-> "", role |-> "", content |-> "",
     timestamp |-> 0, before |-> <<>>, time_frame |-> "", events |-> <<>>,
     memories |-> <<>>, memory_response |-> "", response |-> "", failed |-> <<>>]

Turn(role, content, timestamp) ==
    [role |-> role, content |-> content, timestamp |-> timestamp]

\* the list of a user, as _get_conversation_history returns it
History(u) == IF u \in DOMAIN conversation_history THEN conversation_history[u] ELSE <<>>

Idle == \A t \in Threads : pc[t] = "idle"

\* no chat call for user u is in progress
Quiet(u) == \A t \in Threads : pc[t] # "idle" => frame[t].user_id # u

ChatInit ==
    /\ conversation_history = <<>>
    /\ service = FALSE
    /\ client \in BOOLEAN
    /\ memory \in BOOLEAN
    /\ pc = [t \in Threads |-> "idle"]
    /\ frame = [t \in Threads |-> NoFrame]
    /\ held = [t \in Threads |-> "none"]
    /\ trace = [t \in Threads |-> <<>>]
    /\ log = [u \in Users |-> <<>>]
    /\ now = 0
    /\ ncalls = 0
    /\ last_op = NoOp

Init ==
    /\ ChatInit
    /\ message = ""
    /\ intent = ""

----------------------------------------------------------------------------
(* chat, step by step *)

\* mutant: chat goes to the intent detection without appending the user Turn
ChatEntrySkipsAppend == "detect"

\* the first statement of chat: _add_to_history(user_id, "user", message)
chat_entry == "add_check"

\* chat is called
ChatBegin(t, u, m) ==
    /\ pc[t] = "idle"
    /\ ncalls < MaxCalls
    /\ ncalls' = ncalls + 1
    /\ pc' = [pc EXCEPT ![t] = chat_entry]
    /\ frame' = [frame EXCEPT ![t] =
                    [NoFrame EXCEPT !.user_id = u, !.message = m, !.role = "user",
                                    !.content = m, !.before = History(u)]]
    /\ trace' = [trace EXCEPT ![t] = <<>>]
    /\ last_op' = NoOp
    /\ UNCHANGED <<conversation_history, service, client, memory, held, log, now,
                   message, intent>>

\* mutant: every user's Turns are filed under one key
HistoryKeyShared(user_id) == "u1"

\* the key of conversation_history that _add_to_history uses
history_key(user_id) == user_id

\* _add_to_history: `if user_id not in self.conversation_history`
AddCheck(t) ==
    /\ pc[t] = "add_check"
    /\ pc' = [pc EXCEPT ![t] =
                 IF history_key(frame[t].user_id) \in DOMAIN conversation_history
                 THEN "add_load" ELSE "add_create"]
    /\ frame' = [frame EXCEPT ![t].failed = <<>>]
    /\ UNCHANGED <<conversation_history, service, client, memory, held, trace,
                   log, now, ncalls, last_op, message, intent>>

\* the threads that looked up the list of key k lose it when the key gets a new list
Detach(k) ==
    [x \in Threads |->
        IF held[x] = "live" /\ history_key(frame[x].user_id) = k THEN "stale"
        ELSE held[x]]

\* _add_to_history: `self.conversation_history[user_id] = []`
AddCreate(t) ==
    /\ pc[t] = "add_create"
    /\ conversation_history' =
          (history_key(frame[t].user_id) :> <<>>) @@ conversation_history
    /\ held' = Detach(history_key(frame[t].user_id))
    /\ pc' = [pc EXCEPT ![t] = "add_load"]
    /\ UNCHANGED <<service, client, memory, frame, trace, log, now, ncalls, last_op,
                   message, intent>>

\* _add_to_history: `self.conversation_history[user_id]` is looked up and the
\* timestamp is taken, before append is called
AddLoad(t) ==
    /\ pc[t] = "add_load"
    /\ held' = [held EXCEPT ![t] = "live"]
    /\ frame' = [frame EXCEPT ![t].timestamp = now]
    /\ now' = now + 1
    /\ pc' = [pc EXCEPT ![t] = "add_append"]
    /\ UNCHANGED <<conversation_history, service, client, memory, trace, log, ncalls,
                   last_op, message, intent>>

\* mutant: the list is replaced by the new Turn
AppendOverwrite(list, turn) == <<turn>>

\* mutant: the Turn is put in front of the list
AppendInFront(list, turn) == <<turn>> \o list

\* list.append
append(list, turn) == Append(list, turn)

\* _add_to_history: `.append({...})` on the list that was looked up; a list that
\* is no longer the one in conversation_history takes the Turn with it
AddAppend(t) ==
    LET turn == Turn(frame[t].role, frame[t].content, frame[t].timestamp)
        k == history_key(frame[t].user_id)
    IN  /\ pc[t] = "add_append"
        /\ conversation_history' =
              IF held[t] = "live"
              THEN [conversation_history EXCEPT ![k] = append(@, turn)]
              ELSE conversation_history
        /\ log' = [log EXCEPT ![frame[t].user_id] = Append(@, turn)]
        /\ held' = [held EXCEPT ![t] = "none"]
        /\ trace' = [trace EXCEPT ![t] = Append(@, [op |-> "append", role |-> frame[t].role])]
        /\ pc' = [pc EXCEPT ![t] = IF frame[t].role = "user" THEN "detect" ELSE "return"]
        /\ UNCHANGED <<service, client, memory, frame, now, ncalls, last_op,
                       message, intent>>

\* chat: the handler the intent is routed to
route(intent_) ==
    CASE intent_ = "calendar_query" -> "cal_check"
      [] intent_ = "store_memory" -> "store_add"
      [] intent_ = "recall_memory" -> "recall_get"
      [] OTHER -> "gen_client"

\* chat: `intent = self._detect_intent(message)`
Detect(t) ==
    /\ pc[t] = "detect"
    /\ frame' = [frame EXCEPT ![t].intent = _detect_intent(frame[t].message)]
    /\ trace' = [trace EXCEPT ![t] = Append(@, [op |-> "detect_intent"])]
    /\ pc' = [pc EXCEPT ![t] = route(_detect_intent(frame[t].message))]
    /\ UNCHANGED <<conversation_history, service, client, memory, held, log, now,
                   ncalls, last_op, message, intent>>

\* a handler ends with result r: chat goes on to
\* _add_to_history(user_id, "assistant", response), or the exception leaves chat
Finish(t, r, entries, failures) ==
    IF r.kind = "raise"
    THEN /\ pc' = [pc EXCEPT ![t] = "idle"]
         /\ frame' = [frame EXCEPT ![t] = NoFrame]
         /\ trace' = [trace EXCEPT ![t] = <<>>]
         /\ last_op' = [op |-> "chat", outcome |-> "raise", user_id |-> frame[t].user_id,
                        message |-> frame[t].message, intent |-> frame[t].intent,
                        err |-> r.err]
    ELSE /\ pc' = [pc EXCEPT ![t] = "add_check"]
         /\ frame' = [frame EXCEPT ![t].response = r.value, ![t].role = "assistant",
                                   ![t].content = r.value,
                                   ![t].failed = @ \o failures]
         /\ trace' = [trace EXCEPT ![t] = @ \o entries]
         /\ UNCHANGED last_op

----------------------------------------------------------------------------
(* _handle_calendar_query *)

\* mutant: the handler authenticates whatever the state of the service
AlwaysAuthenticates == TRUE

\* `not self.calendar.service`
needs_auth == ~service

\* `if not self.calendar.service`
CalCheck(t) ==
    /\ pc[t] = "cal_check"
    /\ pc' = [pc EXCEPT ![t] = IF needs_auth THEN "cal_auth" ELSE "cal_fetch"]
    /\ UNCHANGED <<conversation_history, service, client, memory, frame, held, trace,
                   log, now, ncalls, last_op, message, intent>>

\* mutant: the result of authenticate is not looked at
AfterAuthIgnored(auth_success) == "cal_fetch"

\* `if not auth_success: return ...`: where the handler goes after authenticate
after_auth(auth_success) == IF auth_success THEN "cal_fetch" ELSE "respond"

\* mutant: authenticate leaves a service behind also when it fails
ServiceSetAnyway(auth_success) == TRUE

\* authenticate: self.service after the call (it is built on success only)
service_after(auth_success) == service \/ auth_success

\* `auth_success = self.calendar.authenticate()`: authenticate catches every
\* exception and answers False; on success it sets self.service
CalAuth(t) ==
    /\ pc[t] = "cal_auth"
    /\ \E auth_success \in BOOLEAN :
          LET entry == [op |-> "authenticate", ok |-> auth_success] IN
          /\ service' = service_after(auth_success)
          /\ IF after_auth(auth_success) = "cal_fetch"
             THEN /\ pc' = [pc EXCEPT ![t] = "cal_fetch"]
                  /\ trace' = [trace EXCEPT ![t] = Append(@, entry)]
                  /\ UNCHANGED <<frame, last_op>>
             ELSE Finish(t, Return(AuthApology), <<entry>>, <<>>)
    /\ UNCHANGED <<conversation_history, client, memory, held, log, now, ncalls,
                   message, intent>>

\* the events are fetched for the window the message selects
CalFetch(t) ==
    /\ pc[t] = "cal_fetch"
    /\ \E outcome \in EventsListOutcomes :
          LET w == select_window(frame[t].message)
              r == get_events(service, outcome)
              entry == [op |-> "get_events", method |-> w.method, window |-> w.window,
                        max_results |-> w.max_results, result |-> r]
          IN  IF r.kind = "raise"
              THEN Finish(t, calendar_except(r), <<entry>>,
                          Failed("get_events", service, outcome))
              ELSE IF r.value = <<>>
              THEN Finish(t, Return(ScheduleClear(w.time_frame)), <<entry>>,
                          Failed("get_events", service, outcome))
              ELSE /\ frame' = [frame EXCEPT ![t].events = r.value,
                                             ![t].time_frame = w.time_frame]
                   /\ trace' = [trace EXCEPT ![t] = Append(@, entry)]
                   /\ pc' = [pc EXCEPT ![t] = "cal_search"]
                   /\ UNCHANGED last_op
    /\ UNCHANGED <<conversation_history, service, client, memory, held, log, now,
                   ncalls, message, intent>>

PreferenceQuery == "study schedule preference"
DefaultSearchLimit == 5

\* `memories = self.memory_manager.search_memories(user_id, "study schedule preference")`
CalSearch(t) ==
    /\ pc[t] = "cal_search"
    /\ \E outcome \in MemoryListOutcomes :
          Finish(t,
                 calendar_except(Return(calendar_response(frame[t].time_frame,
                                                          frame[t].events,
                                                          search_memories(outcome)))),
                 <<[op |-> "search_memories", query |-> PreferenceQuery,
                    limit |-> DefaultSearchLimit,
                    result |-> search_memories(outcome)]>>,
                 Failed("search_memories", memory, outcome))
    /\ UNCHANGED <<conversation_history, service, client, memory, held, log, now,
                   ncalls, message, intent>>

----------------------------------------------------------------------------
(* _handle_memory_storage and _handle_memory_recall *)

\* `result = self.memory_manager.add_memory(...)`, then chat calls _generate_ai_response
StoreAdd(t) ==
    /\ pc[t] = "store_add"
    /\ \E outcome \in MemoryAddOutcomes :
          /\ frame' = [frame EXCEPT ![t].memory_response =
                                        memory_storage_response(add_memory(outcome)),
                                    ![t].failed =
                                        @ \o Failed("add_memory", memory, outcome)]
          /\ trace' = [trace EXCEPT ![t] =
                          Append(@, [op |-> "add_memory", user_id |-> frame[t].user_id,
                                     message |-> frame[t].message,
                                     category |-> "user_preference",
                                     source |-> "conversation",
                                     success |-> Get(add_memory(outcome), "success", FALSE),
                                     result |-> add_memory(outcome)])]
    /\ pc' = [pc EXCEPT ![t] = "gen_client"]
    /\ UNCHANGED <<conversation_history, service, client, memory, held, log, now,
                   ncalls, last_op, message, intent>>

RecallLimit == 10

\* `memories = self.memory_manager.get_memories(user_id, limit=10)`
RecallGet(t) ==
    /\ pc[t] = "recall_get"
    /\ \E outcome \in MemoryListOutcomes :
          Finish(t, Return(memory_recall_response(get_memories(outcome))),
                 <<[op |-> "get_memories", user_id |-> frame[t].user_id,
                    limit |-> RecallLimit, result |-> get_memories(outcome)]>>,
                 Failed("get_memories", memory, outcome))
    /\ UNCHANGED <<conversation_history, service, client, memory, held, log, now,
                   ncalls, message, intent>>

----------------------------------------------------------------------------
(* _generate_ai_response *)

\* mutant: the LLM is called without looking at self.client
ClientCheckSkipped == FALSE

\* `not self.client`
client_absent == ~client

\* `if not self.client: return ...`
GenClient(t) ==
    /\ pc[t] = "gen_client"
    /\ IF ~client_absent
       THEN /\ pc' = [pc EXCEPT ![t] = "gen_search"]
            /\ UNCHANGED <<frame, trace, last_op>>
       ELSE Finish(t, Return(chat_response(frame[t].intent, frame[t].memory_response,
                                           LLMUnavailable)), <<>>, <<>>)
    /\ UNCHANGED <<conversation_history, service, client, memory, held, log, now,
                   ncalls, message, intent>>

ContextLimit == 3

\* `memories = self.memory_manager.search_memories(user_id, message, limit=3)`
GenSearch(t) ==
    /\ pc[t] = "gen_search"
    /\ \E outcome \in MemoryListOutcomes :
          /\ frame' = [frame EXCEPT ![t].memories = search_memories(outcome),
                                    ![t].failed =
                                        @ \o Failed("search_memories", memory, outcome)]
          /\ trace' = [trace EXCEPT ![t] =
                          Append(@, [op |-> "search_memories", query |-> frame[t].message,
                                     limit |-> ContextLimit,
                                     result |-> search_memories(outcome)])]
    /\ pc' = [pc EXCEPT ![t] = "gen_llm"]
    /\ UNCHANGED <<conversation_history, service, client, memory, held, log, now,
                   ncalls, last_op, message, intent>>

\* the message list is built from the history as it stands and sent to the LLM
GenLLM(t) ==
    /\ pc[t] = "gen_llm"
    /\ \E outcome \in LLMOutcomes :
          LET r == generate_except(outcome)
              entry == [op |-> "llm",
                        messages |-> llm_messages(frame[t].memories,
                                                  History(frame[t].user_id),
                                                  frame[t].message),
                        result |-> r]
          IN  Finish(t,
                     IF r.kind = "raise" THEN r
                     ELSE Return(chat_response(frame[t].intent,
                                               frame[t].memory_response, r.value)),
                     <<entry>>, Failed("llm", TRUE, outcome))
    /\ UNCHANGED <<conversation_history, service, client, memory, held, log, now,
                   ncalls, message, intent>>

----------------------------------------------------------------------------
(* The end of chat, reset_conversation and get_statistics *)

\* chat: `return response`
ChatReturn(t) ==
    /\ pc[t] = "return"
    /\ pc' = [pc EXCEPT ![t] = "idle"]
    /\ last_op' = [op |-> "chat", outcome |-> "return", user_id |-> frame[t].user_id,
                   message |-> frame[t].message, intent |-> frame[t].intent,
                   value |-> frame[t].response, before |-> frame[t].before,
                   trace |-> trace[t]]
    /\ frame' = [frame EXCEPT ![t] = NoFrame]
    /\ trace' = [trace EXCEPT ![t] = <<>>]
    /\ UNCHANGED <<conversation_history, service, client, memory, held, log, now,
                   ncalls, message, intent>>

\* mutant: reset_conversation leaves the list as it is
ResetKeeps(list) == list

\* the list reset_conversation installs
reset_list(list) == <<>>

reset_conversation(u) ==
    /\ IF u \in DOMAIN conversation_history
       THEN /\ conversation_history' = [conversation_history EXCEPT ![u] = reset_list(@)]
            /\ held' = Detach(u)
            /\ log' = [log EXCEPT ![u] = <<>>]
       ELSE UNCHANGED <<conversation_history, held, log>>
    /\ last_op' = [op |-> "reset_conversation", user_id |-> u,
                   dropped |-> Len(History(u))]
    /\ UNCHANGED <<service, client, memory, pc, frame, trace, now, ncalls,
                   message, intent>>

\* mutant: the timestamp of the first Turn is reported as the last interaction
StatisticsLastIsFirst(history, memories) ==
    [total_messages |-> Len(history),
     stored_memories |-> Len(memories),
     conversation_started |-> IF history # <<>> THEN history[1].timestamp ELSE "None",
     last_interaction |-> IF history # <<>> THEN history[1].timestamp ELSE "None"]

\* the dict get_statistics returns; None is written "None"
statistics(history, memories) ==
    [total_messages |-> Len(history),
     stored_memories |-> Len(memories),
     conversation_started |-> IF history # <<>> THEN history[1].timestamp ELSE "None",
     last_interaction |-> IF history # <<>> THEN history[Len(history)].timestamp
                          ELSE "None"]

get_statistics(u) ==
    /\ conversation_history' =
          IF u \in DOMAIN conversation_history THEN conversation_history
          ELSE (u :> <<>>) @@ conversation_history
    /\ \E outcome \in MemoryListOutcomes :
          last_op' = [op |-> "get_statistics", user_id |-> u,
                      result |-> statistics(History(u), get_memories(outcome)),
                      memories |-> get_memories(outcome),
                      previous |-> IF last_op.op = "reset_conversation" THEN last_op
                                   ELSE NoOp]
    /\ UNCHANGED <<service, client, memory, pc, frame, held, trace, log, now, ncalls,
                   message, intent>>

----------------------------------------------------------------------------
(* Specifications *)

Step(t) ==
    \/ AddCheck(t) \/ AddCreate(t) \/ AddLoad(t) \/ AddAppend(t)
    \/ Detect(t)
    \/ CalCheck(t) \/ CalAuth(t) \/ CalFetch(t) \/ CalSearch(t)
    \/ StoreAdd(t) \/ RecallGet(t)
    \/ GenClient(t) \/ GenSearch(t) \/ GenLLM(t)
    \/ ChatReturn(t)

\* calls made one after the other
Next ==
    \/ \E u \in Users, m \in ChatMessages : Idle /\ ChatBegin("t1", u, m)
    \/ Step("t1")
    \/ \E u \in Users : Idle /\ reset_conversation(u)
    \/ \E u \in Users : Idle /\ get_statistics(u)

Spec == Init /\ [][Next]_vars

----------------------------------------------------------------------------
(* The classifier alone: _detect_intent applied to messages put together     *)
(* from fragments, and to the same messages in another letter case           *)

Fragments ==
    {"Show my Schedule", "Today", "Remember ", "I like ", "What do I like",
     "REMIND ME", "my preferences", "Tell me a joke", "pr", "event", "note ", "that"}

RECURSIVE Composed(_)
Composed(n) ==
    IF n = 0 THEN {""}
    ELSE Composed(n - 1) \cup {a \o f : a \in Composed(n - 1), f \in Fragments}

IntentMessages == Composed(MaxFragments)

UpperChar(c) ==
    CASE c = "a" -> "A" [] c = "b" -> "B" [] c = "c" -> "C" [] c = "d" -> "D"
      [] c = "e" -> "E" [] c = "f" -> "F" [] c = "g" -> "G" [] c = "h" -> "H"
      [] c = "i" -> "I" [] c = "j" -> "J" [] c = "k" -> "K" [] c = "l" -> "L"
      [] c = "m" -> "M" [] c = "n" -> "N" [] c = "o" -> "O" [] c = "p" -> "P"
      [] c = "q" -> "Q" [] c = "r" -> "R" [] c = "s" -> "S" [] c = "t" -> "T"
      [] c = "u" -> "U" [] c = "v" -> "V" [] c = "w" -> "W" [] c = "x" -> "X"
      [] c = "y" -> "Y" [] c = "z" -> "Z" [] OTHER -> c

RECURSIVE UpperFrom(_, _)
UpperFrom(s, i) ==
    IF i > Len(s) THEN "" ELSE UpperChar(SubSeq(s, i, i)) \o UpperFrom(s, i + 1)

Upper(s) == UpperFrom(s, 1)

IntentInit ==
    /\ ChatInit
    /\ ~client
    /\ ~memory
    /\ message \in IntentMessages
    /\ intent = ""

\* the message is classified
Classify ==
    /\ intent' = _detect_intent(message)
    /\ UNCHANGED message
    /\ UNCHANGED chatVars

\* the letter case of the message changes; the classification made before stays
Recase ==
    /\ \E m \in {Upper(message), Lower(message)} :
          /\ m # message
          /\ message' = m
    /\ UNCHANGED intent
    /\ UNCHANGED chatVars

IntentNext == Classify \/ Recase

SpecIntent == IntentInit /\ [][IntentNext]_vars

\* the message holds, in any letter case, a keyword of the set
HasKeyword(keywords, m) == \E k \in keywords : Contains(Upper(m), Upper(k))

\* C3: a classified message that contains a calendar keyword, in any letter
\* case, is classified calendar_query, whatever other keywords it contains
C3_CalendarFirst ==
    (intent # "" /\ HasKeyword(calendar_keywords, message)) => intent = "calendar_query"

\* a message with both 'remember' and 'schedule' has been classified calendar_query
C3_Witness ==
    /\ intent = "calendar_query"
    /\ message = "Remember Show my Schedule"

\* C4: a classified message that contains a store-memory keyword and no calendar
\* keyword is classified store_memory, also when it contains a recall keyword
C4_StoreBeforeRecall ==
    (/\ intent # ""
     /\ HasKeyword(memory_keywords, message)
     /\ ~HasKeyword(calendar_keywords, message)) => intent = "store_memory"

\* a message with a store-memory and a recall keyword has been classified store_memory
C4_Witness ==
    /\ intent = "store_memory"
    /\ message = "Remember my preferences"

\* C5: every classification is one of the four intents; it is recall_memory exactly
\* when the message holds a recall keyword and no calendar or store-memory keyword,
\* general_conversation exactly when it holds no keyword; and it is the
\* classification of the message in any other letter case
C5_RecallGeneralCase ==
    intent # "" =>
        /\ intent \in {"calendar_query", "store_memory", "recall_memory",
                       "general_conversation"}
        /\ intent = "recall_memory" <=>
              (/\ HasKeyword(recall_keywords, message)
               /\ ~HasKeyword(calendar_keywords, message)
               /\ ~HasKeyword(memory_keywords, message))
        /\ intent = "general_conversation" <=>
              (/\ ~HasKeyword(recall_keywords, message)
               /\ ~HasKeyword(calendar_keywords, message)
               /\ ~HasKeyword(memory_keywords, message))

\* a recall message classified in lower case and then put in upper case
C5_Witness ==
    /\ intent = "recall_memory"
    /\ message = "MY PREFERENCES"

----------------------------------------------------------------------------
(* Claims about calls made one after the other (Spec) *)

\* the chat call that has just returned, no other call having begun since
Returned == Idle /\ last_op.op = "chat" /\ last_op.outcome = "return"

\* the operations of the trace of the call that has just returned
TraceOps == {last_op.trace[i].op : i \in DOMAIN last_op.trace}

\* C1: a completed chat(u, m) leaves u's sequence exactly two Turns longer: the
\* Turns u had before, then a user Turn with content m, then an assistant Turn
\* whose content is the string chat returned
C1_ChatAppendsTwo ==
    Returned =>
        LET h == History(last_op.user_id)
            n == Len(last_op.before)
        IN  /\ Len(h) = n + 2
            /\ SubSeq(h, 1, n) = last_op.before
            /\ h[n + 1].role = "user"
            /\ h[n + 1].content = last_op.message
            /\ h[n + 2].role = "assistant"
            /\ h[n + 2].content = last_op.value

\* a second chat of a user has returned an LLM error string after a store-memory message
C1_Witness ==
    /\ Returned
    /\ Len(last_op.before) = 2
    /\ last_op.intent = "store_memory"
    /\ last_op.value =
          StorageRetry \o "\n\n" \o "I encountered an error generating a response: rate limit"

\* C2: chat never ends by raising, whatever the calendar, memory and LLM clients
\* do: it returns a string, and that string is the assistant Turn at the end of
\* the user's sequence
C2_ChatNeverRaises ==
    last_op.op = "chat" =>
        /\ last_op.outcome = "return"
        /\ Idle =>
              LET h == History(last_op.user_id)
              IN  /\ h # <<>>
                  /\ h[Len(h)].role = "assistant"
                  /\ h[Len(h)].content = last_op.value

\* a chat has returned after the event fetch raised
C2_Witness ==
    /\ Returned
    /\ last_op.value = "I encountered an error while accessing your calendar: timed out"

\* C6: right after reset_conversation(u) the sequence of u is empty, and a
\* get_statistics(u) made next reports no message and no timestamps
C6_ResetEmpties ==
    /\ last_op.op = "reset_conversation" => History(last_op.user_id) = <<>>
    /\ (/\ last_op.op = "get_statistics"
        /\ last_op.previous.op = "reset_conversation"
        /\ last_op.previous.user_id = last_op.user_id)
       => /\ last_op.result.total_messages = 0
          /\ last_op.result.conversation_started = "None"
          /\ last_op.result.last_interaction = "None"

\* get_statistics(u) has followed a reset_conversation(u) that dropped four Turns
C6_Witness ==
    /\ last_op.op = "get_statistics"
    /\ last_op.previous.op = "reset_conversation"
    /\ last_op.previous.user_id = last_op.user_id
    /\ last_op.previous.dropped = 4

\* C7: a chat in which authenticate answered false returns the apology, and
\* that chat made neither an event fetch nor a memory search
C7_AuthFailureStops ==
    (/\ Returned
     /\ \E i \in DOMAIN last_op.trace :
           last_op.trace[i].op = "authenticate" /\ ~last_op.trace[i].ok)
    => /\ last_op.value = AuthApology
       /\ "get_events" \notin TraceOps
       /\ "search_memories" \notin TraceOps

\* a calendar query has returned after authenticate answered false
C7_Witness ==
    /\ Returned
    /\ last_op.intent = "calendar_query"
    /\ last_op.trace = <<[op |-> "append", role |-> "user"], [op |-> "detect_intent"],
                         [op |-> "authenticate", ok |-> FALSE],
                         [op |-> "append", role |-> "assistant"]>>

\* the add_memory calls of the call that has just returned
AddCalls == {i \in DOMAIN last_op.trace : last_op.trace[i].op = "add_memory"}

\* C8: without an LLM client a chat that reaches the general-conversation path
\* returns, searches no memory and calls no LLM; a general-conversation reply is
\* the fixed string, and a store-memory reply is the reply of the one add_memory
\* made (the acknowledgment if it succeeded, the retry prompt if not), a blank
\* line and the fixed string
C8_NoClient ==
    (/\ ~client
     /\ Idle
     /\ last_op.op = "chat"
     /\ last_op.intent \in {"general_conversation", "store_memory"})
    => /\ last_op.outcome = "return"
       /\ "search_memories" \notin TraceOps
       /\ "llm" \notin TraceOps
       /\ last_op.intent = "general_conversation" =>
             /\ last_op.value = LLMUnavailable
             /\ AddCalls = {}
       /\ last_op.intent = "store_memory" =>
             /\ Cardinality(AddCalls) = 1
             /\ \A i \in AddCalls :
                   /\ last_op.trace[i].message = last_op.message
                   /\ last_op.value =
                         (IF last_op.trace[i].success THEN StorageAck ELSE StorageRetry)
                         \o "\n\n" \o LLMUnavailable

\* without an LLM client a store-memory chat has returned after a successful add
C8_Witness ==
    /\ ~client
    /\ Returned
    /\ last_op.intent = "store_memory"
    /\ last_op.value = StorageAck \o "\n\n" \o LLMUnavailable

\* the LLM calls of the call that has just returned
LLMCalls == {i \in DOMAIN last_op.trace : last_op.trace[i].op = "llm"}

\* what the general-conversation path gave in the call that has just returned:
\* the fixed string when no LLM was called, else what came of the one LLM call
\* made with the message as its last entry
GeneralOutputIs(text) ==
    IF LLMCalls = {} THEN ~client /\ text = LLMUnavailable
    ELSE /\ Cardinality(LLMCalls) = 1
         /\ \A i \in LLMCalls :
               LET e == last_op.trace[i]
               IN  /\ e.messages[Len(e.messages)] =
                         [role |-> "user", content |-> last_op.message]
                   /\ e.result = Return(text)

\* C13: a store-memory chat makes one add_memory call, with the raw message and the
\* metadata category 'user_preference' and source 'conversation'; its reply is the
\* acknowledgment exactly when the result of the add carries a true success flag
\* and else the retry prompt (also when the result carries no flag), then a blank
\* line, then the output of the general-conversation path for the same message
C13_StoreTwoPart ==
    (Returned /\ last_op.intent = "store_memory") =>
        /\ Cardinality(AddCalls) = 1
        /\ \A i \in AddCalls :
              LET e == last_op.trace[i]
                  succeeded == "success" \in DOMAIN e.result /\ e.result["success"]
              IN  /\ e.user_id = last_op.user_id
                  /\ e.message = last_op.message
                  /\ e.category = "user_preference"
                  /\ e.source = "conversation"
                  /\ \E k \in 1..Len(last_op.value) :
                        /\ SubSeq(last_op.value, 1, k) =
                              (IF succeeded THEN StorageAck ELSE StorageRetry) \o "\n\n"
                        /\ GeneralOutputIs(SubSeq(last_op.value, k + 1,
                                                  Len(last_op.value)))

\* a store-memory chat has returned the retry prompt and the LLM's text, the memory
\* system not being initialised
C13_Witness ==
    /\ Returned
    /\ ~memory
    /\ last_op.intent = "store_memory"
    /\ \E i \in AddCalls : "success" \notin DOMAIN last_op.trace[i].result
    /\ last_op.value = StorageRetry \o "\n\n" \o "Happy to help!"

\* the get_memories calls of the call that has just returned
RecallCalls == {i \in DOMAIN last_op.trace : last_op.trace[i].op = "get_memories"}

\* the text of a memory record
RecordText(record) == IF "memory" \in DOMAIN record THEN record["memory"] ELSE "N/A"

\* the lines 1..n of the numbered list of the records' texts
RECURSIVE NumberedLines(_, _)
NumberedLines(records, n) ==
    IF n = 0 THEN ""
    ELSE NumberedLines(records, n - 1) \o Str(n) \o ". " \o RecordText(records[n]) \o "\n"

\* C14: a recall-memory chat makes one get_memories call for the user, with limit
\* 10, and calls neither the LLM nor the calendar; its reply is the fixed "nothing
\* stored yet" message when no record came back, and else the heading, one line
\* per record numbered 1..n in the order returned, and the closing prompt
C14_RecallListsAll ==
    (Returned /\ last_op.intent = "recall_memory") =>
        /\ Cardinality(RecallCalls) = 1
        /\ TraceOps = {"append", "detect_intent", "get_memories"}
        /\ \A i \in RecallCalls :
              LET e == last_op.trace[i]
              IN  /\ e.user_id = last_op.user_id
                  /\ e.limit = 10
                  /\ e.result = <<>> => last_op.value = NothingStored
                  /\ e.result # <<>> =>
                        last_op.value =
                           "Here's what I remember about you:\n\n" \o
                           NumberedLines(e.result, Len(e.result)) \o
                           "\nIs there anything else you'd like me to know?"

\* a recall-memory chat has returned the list of two records
C14_Witness ==
    /\ Returned
    /\ last_op.intent = "recall_memory"
    /\ \E i \in RecallCalls : Len(last_op.trace[i].result) = 2
    /\ last_op.value =
          "Here's what I remember about you:\n\n1. Prefers mornings\n2. N/A\n" \o
          "\nIs there anything else you'd like me to know?"

\* C19: get_statistics(u), made after any chat and reset_conversation calls,
\* reports as total_messages the length of u's sequence, as stored_memories the
\* number of records the memory manager got for u, and as conversation_started
\* and last_interaction the timestamps of the first and the last Turn of the
\* sequence, or None when the sequence is empty
C19_Statistics ==
    last_op.op = "get_statistics" =>
        LET h == History(last_op.user_id)
            r == last_op.result
        IN  /\ DOMAIN r = {"total_messages", "stored_memories", "conversation_started",
                           "last_interaction"}
            /\ r.total_messages = Len(h)
            /\ r.stored_memories = Len(last_op.memories)
            /\ IF h = <<>>
               THEN r.conversation_started = "None" /\ r.last_interaction = "None"
               ELSE /\ r.conversation_started = h[1].timestamp
                    /\ r.last_interaction = h[Len(h)].timestamp

\* get_statistics has reported the two Turns of a chat made after a reset that
\* dropped the Turns of an earlier chat, and two stored memories
C19_Witness ==
    /\ last_op.op = "get_statistics"
    /\ last_op.result = [total_messages |-> 2, stored_memories |-> 2,
                         conversation_started |-> 2, last_interaction |-> 3]
    /\ Len(History(last_op.user_id)) = 2

\* where a chat call stands between its two _add_to_history calls
Processing ==
    {"detect", "cal_check", "cal_auth", "cal_fetch", "cal_search", "store_add",
     "recall_get", "gen_client", "gen_search", "gen_llm"}

\* the calls of a trace made to the calendar, the memory manager and the LLM
ExternalOps ==
    {"authenticate", "get_events", "add_memory", "get_memories", "search_memories", "llm"}

\* the order of a trace: the user Turn, the intent detection, the external calls,
\* and the assistant Turn, if any, at the end
Ordered(tr) ==
    /\ tr # <<>> => tr[1] = [op |-> "append", role |-> "user"]
    /\ Len(tr) >= 2 => tr[2].op = "detect_intent"
    /\ \A i \in DOMAIN tr :
          /\ i > 2 => tr[i].op \in ExternalOps \cup {"append"}
          /\ (i > 1 /\ tr[i].op = "append") =>
                /\ tr[i].role = "assistant"
                /\ i = Len(tr)

\* C20: within a chat call the user Turn is appended before the intent is detected
\* and before any call to the calendar, the memory manager or the LLM; while
\* those are made the sequence ends with that user Turn and holds no assistant
\* Turn of the call; and the assistant Turn is appended after all of them, as the
\* last thing before chat returns
C20_TurnOrder ==
    /\ \A t \in Threads :
          /\ Ordered(trace[t])
          /\ pc[t] \in Processing =>
                /\ trace[t] # <<>>
                /\ History(frame[t].user_id) =
                      frame[t].before \o
                      <<Turn("user", frame[t].message,
                             History(frame[t].user_id)[Len(frame[t].before) + 1].timestamp)>>
          /\ pc[t] = "return" =>
                /\ trace[t][Len(trace[t])] = [op |-> "append", role |-> "assistant"]
                /\ Len(History(frame[t].user_id)) = Len(frame[t].before) + 2
    /\ Returned =>
          /\ Ordered(last_op.trace)
          /\ Len(last_op.trace) >= 3
          /\ last_op.trace[Len(last_op.trace)] = [op |-> "append", role |-> "assistant"]

\* a calendar query has returned after authenticating, fetching and searching,
\* in this order between its two appends
C20_Witness ==
    /\ Returned
    /\ Len(last_op.trace) = 6
    /\ [i \in 1..6 |-> last_op.trace[i].op] =
          <<"append", "detect_intent", "authenticate", "get_events",
            "search_memories", "append">>

----------------------------------------------------------------------------
(* Calls of different users running at the same time (SpecUsers) *)

\* each user has one thread, which makes the calls of that user one after the
\* other; the two threads send different messages, so that every handler runs
\* beside the handlers of the other thread
Sessions ==
    {<<"t1", "u1", {"What are my meetings today?", "Tell me a joke"}>>,
     <<"t2", "u2", {"Remember that I like mornings", "What do you know about me?"}>>}

NextUsers ==
    \/ \E s \in Sessions : \E m \in s[3] : ChatBegin(s[1], s[2], m)
    \/ \E t \in Threads : Step(t)
    \/ \E u \in Users : Quiet(u) /\ reset_conversation(u)

SpecUsers == Init /\ [][NextUsers]_vars

\* a thread serving user u performs the append of _add_to_history in this step
AppendsFor(u) ==
    \E t \in Threads :
        /\ pc[t] = "add_append"
        /\ pc'[t] # "add_append"
        /\ frame[t].user_id = u

\* reset_conversation(u) is performed in this step
ResetsFor(u) ==
    /\ last_op' = [op |-> "reset_conversation", user_id |-> u,
                   dropped |-> Len(History(u))]
    /\ pc' = pc

\* C9: while calls of different users interleave, the sequence of each user is at
\* every moment the Turns appended by that user's own calls, in the order of those
\* calls, and a step changes the sequence of u only if it is an append or a reset
\* made for u
C9_UsersIndependent ==
    /\ [](\A u \in Users : History(u) = log[u])
    /\ [][\A u \in Users :
             History(u)' # History(u) => (AppendsFor(u) \/ ResetsFor(u))]_vars

\* two calls of different users are in progress, each having appended its user Turn
C9_Witness ==
    /\ pc["t1"] = "add_append" /\ frame["t1"].role = "assistant"
    /\ pc["t2"] = "add_append" /\ frame["t2"].role = "assistant"
    /\ frame["t1"].user_id = "u1"
    /\ frame["t2"].user_id = "u2"
    /\ Len(History("u1")) = 1
    /\ Len(History("u2")) = 1

----------------------------------------------------------------------------
(* Calls of one user running at the same time (SpecOverlap) *)

\* two threads make calls for the same user
OverlapSessions ==
    {<<"t1", "u1", {"What are my meetings today?", "Tell me a joke"}>>,
     <<"t2", "u1", {"Remember that I like mornings", "What do you know about me?"}>>}

NextOverlap ==
    \/ \E s \in OverlapSessions : \E m \in s[3] : ChatBegin(s[1], s[2], m)
    \/ \E t \in Threads : Step(t)

SpecOverlap == Init /\ [][NextOverlap]_vars

\* C10: once the overlapping calls of a user have returned, the sequence of the
\* user holds every Turn the calls appended: none is lost or overwritten
C10_NoTurnLost ==
    Idle =>
        /\ Len(History("u1")) = Len(log["u1"])
        /\ \A i \in DOMAIN log["u1"] :
              \E j \in DOMAIN History("u1") : History("u1")[j] = log["u1"][i]

----------------------------------------------------------------------------
(* Calendar queries alone (SpecCalendar) *)

\* calendar queries that name the windows alone and together, in mixed letter case
CalendarMessages ==
    {"Am I free Tomorrow or later this week?",
     "What is on next WEEK?",
     "Any appointment tomorrow?",
     "When is my next meeting?",
     "Meetings today or this week?"}

CalendarStep(t) ==
    \/ AddCheck(t) \/ AddCreate(t) \/ AddLoad(t) \/ AddAppend(t)
    \/ Detect(t)
    \/ CalCheck(t) \/ CalAuth(t) \/ CalFetch(t) \/ CalSearch(t)
    \/ ChatReturn(t)

\* calendar queries of one user, made one after the other
NextCalendar ==
    \/ \E m \in CalendarMessages : Idle /\ ChatBegin("t1", "u1", m)
    \/ CalendarStep("t1")

\* the calendar handler never looks at the LLM client: it is left unconfigured
CalendarInit == Init /\ ~client

SpecCalendar == CalendarInit /\ [][NextCalendar]_vars

\* the message holds the word, in any letter case
Has(m, word) == Contains(Upper(m), Upper(word))

\* the event fetches of the call that has just returned
Fetches == {i \in DOMAIN last_op.trace : last_op.trace[i].op = "get_events"}

\* the memory searches of the call that has just returned
Searches == {i \in DOMAIN last_op.trace : last_op.trace[i].op = "search_memories"}

StartsWith(s, prefix) == Len(s) >= Len(prefix) /\ SubSeq(s, 1, Len(prefix)) = prefix

\* the reply reports the time frame: as the clear schedule or as the head of the list
Reports(value, time_frame) ==
    \/ value = "You don't have any events scheduled for " \o time_frame \o
               ". Your schedule is clear!"
    \/ StartsWith(value, "Here are your events for " \o time_frame \o ":\n\n")

\* a calendar query has returned after fetching events without an exception
Fetched(i) ==
    /\ Returned
    /\ last_op.intent = "calendar_query"
    /\ i \in Fetches
    /\ last_op.trace[i].result.kind = "return"

\* C11 as stated: the window of a calendar query is chosen in the order today,
\* tomorrow, week, default; a message with 'tomorrow' and 'week' and without
\* 'today' is fetched with tomorrow's window and reported as 'tomorrow'
C11_TomorrowBeforeWeek ==
    Returned => \A i \in DOMAIN last_op.trace : Fetched(i) =>
        LET m == last_op.message
            e == last_op.trace[i]
        IN  /\ Has(m, "today") => e.window = "today"
            /\ (~Has(m, "today") /\ Has(m, "tomorrow")) =>
                  /\ e.window = "tomorrow"
                  /\ Reports(last_op.value, "tomorrow")
            /\ (~Has(m, "today") /\ ~Has(m, "tomorrow") /\ Has(m, "week")) =>
                  e.window = "next_7_days"

\* C11 amended: the window of a calendar query is chosen in the order today, week,
\* tomorrow, default, and reported as 'today', 'this week', 'tomorrow', 'upcoming';
\* a message with 'tomorrow' and 'week' and without 'today' is fetched over the
\* next 7 days and reported as 'this week'
C11_WeekBeforeTomorrow ==
    Returned => \A i \in DOMAIN last_op.trace : Fetched(i) =>
        LET m == last_op.message
            e == last_op.trace[i]
        IN  /\ Has(m, "today") =>
                  e.window = "today" /\ Reports(last_op.value, "today")
            /\ (~Has(m, "today") /\ Has(m, "week")) =>
                  e.window = "next_7_days" /\ Reports(last_op.value, "this week")
            /\ (~Has(m, "today") /\ ~Has(m, "week") /\ Has(m, "tomorrow")) =>
                  e.window = "tomorrow" /\ Reports(last_op.value, "tomorrow")
            /\ (~Has(m, "today") /\ ~Has(m, "week") /\ ~Has(m, "tomorrow")) =>
                  e.window = "next_7_days" /\ Reports(last_op.value, "upcoming")

\* a query with 'Tomorrow' and 'week' has returned events fetched over the next 7 days
C11_Witness ==
    /\ Returned
    /\ last_op.message = "Am I free Tomorrow or later this week?"
    /\ \E i \in Fetches :
          /\ last_op.trace[i].window = "next_7_days"
          /\ last_op.trace[i].result.kind = "return"
          /\ last_op.trace[i].result.value # <<>>
    /\ StartsWith(last_op.value, "Here are your events for this week:")

\* C12 as stated: a calendar query with 'week' is fetched over the next 7 days with
\* at most 50 results, and one with none of 'today', 'tomorrow', 'week' over the
\* next 7 days with at most 10 results
C12_DefaultTenResults ==
    Returned => \A i \in DOMAIN last_op.trace : Fetched(i) =>
        LET m == last_op.message
            e == last_op.trace[i]
        IN  /\ Has(m, "week") =>
                  e.window = "next_7_days" /\ e.max_results = 50
            /\ (~Has(m, "today") /\ ~Has(m, "tomorrow") /\ ~Has(m, "week")) =>
                  e.window = "next_7_days" /\ e.max_results = 10

\* C12 amended: a calendar query with 'week' and without 'today' is fetched over the
\* next 7 days with at most 50 results, and so is one with none of 'today',
\* 'tomorrow', 'week': both go through get_week_events
C12_DefaultFiftyResults ==
    Returned => \A i \in DOMAIN last_op.trace : Fetched(i) =>
        LET m == last_op.message
            e == last_op.trace[i]
        IN  /\ (~Has(m, "today") /\ Has(m, "week")) =>
                  /\ e.method = "get_week_events"
                  /\ e.window = "next_7_days" /\ e.max_results = 50
            /\ (~Has(m, "today") /\ ~Has(m, "tomorrow") /\ ~Has(m, "week")) =>
                  /\ e.method = "get_week_events"
                  /\ e.window = "next_7_days" /\ e.max_results = 50

\* a query that names no window has returned after a fetch of at most 50 results
C12_Witness ==
    /\ Returned
    /\ last_op.message = "When is my next meeting?"
    /\ \E i \in Fetches :
          /\ last_op.trace[i].max_results = 50
          /\ last_op.trace[i].result.kind = "return"
    /\ Reports(last_op.value, "upcoming")

\* C15: a calendar query whose fetch returned no events answers that the schedule
\* is clear for the selected time frame and searches no memory; one whose fetch
\* returned events makes one search for 'study schedule preference' and answers the
\* formatted event list, followed by one hint line with the text of the first
\* record exactly when the search returned a record
C15_HintIffMemory ==
    Returned => \A i \in DOMAIN last_op.trace : Fetched(i) =>
        LET events == last_op.trace[i].result.value
            time_frame == select_window(last_op.message).time_frame
            listing == "Here are your events for " \o time_frame \o ":\n\n" \o
                       format_events_list(events)
        IN  /\ events = <<>> =>
                  /\ last_op.value = ScheduleClear(time_frame)
                  /\ Searches = {}
            /\ events # <<>> =>
                  /\ Cardinality(Searches) = 1
                  /\ \A j \in Searches :
                        LET found == last_op.trace[j].result
                        IN  /\ j > i
                            /\ last_op.trace[j].query = "study schedule preference"
                            /\ found = <<>> => last_op.value = listing
                            /\ found # <<>> =>
                                  last_op.value =
                                     listing \o "\nBased on your preferences: " \o
                                     (IF "memory" \in DOMAIN found[1]
                                      THEN found[1]["memory"] ELSE "")

\* a calendar query has returned two events and the hint of a stored preference
C15_Witness ==
    /\ Returned
    /\ \E i \in Fetches :
          /\ last_op.trace[i].result.kind = "return"
          /\ Len(last_op.trace[i].result.value) = 2
    /\ \E j \in Searches : last_op.trace[j].result # <<>>
    /\ \E k \in 1..Len(last_op.value) :
          SubSeq(last_op.value, k, Len(last_op.value)) =
             "\nBased on your preferences: Prefers mornings"

----------------------------------------------------------------------------
(* The general-conversation path after earlier exchanges (SpecGeneral) *)

\* the Turns n/2 earlier exchanges left in a user's list
EarlierTurns(n) ==
    [i \in 1..n |->
        IF i % 2 = 1 THEN Turn("user", "Question " \o Str((i + 1) \div 2), i - 1)
        ELSE Turn("assistant", "Answer " \o Str(i \div 2), i - 1)]

\* the numbers of Turns the user's list holds at the start
EarlierLengths == {0, 2, 4, 6}

\* a chatbot that has served u1 before
GeneralInit ==
    /\ \E n \in EarlierLengths :
          /\ conversation_history =
                IF n = 0 THEN <<>> ELSE ("u1" :> EarlierTurns(n))
          /\ log = [u \in Users |-> IF u = "u1" THEN EarlierTurns(n) ELSE <<>>]
          /\ now = n
    /\ service = FALSE
    /\ client \in BOOLEAN
    /\ memory \in BOOLEAN
    /\ pc = [t \in Threads |-> "idle"]
    /\ frame = [t \in Threads |-> NoFrame]
    /\ held = [t \in Threads |-> "none"]
    /\ trace = [t \in Threads |-> <<>>]
    /\ ncalls = 0
    /\ last_op = NoOp
    /\ message = ""
    /\ intent = ""

\* the messages that reach _generate_ai_response
GeneralMessages == {"Tell me a joke", "Remember that I like mornings"}

GeneralStep(t) ==
    \/ AddCheck(t) \/ AddCreate(t) \/ AddLoad(t) \/ AddAppend(t)
    \/ Detect(t)
    \/ StoreAdd(t)
    \/ GenClient(t) \/ GenSearch(t) \/ GenLLM(t)
    \/ ChatReturn(t)

NextGeneral ==
    \/ \E m \in GeneralMessages : Idle /\ ChatBegin("t1", "u1", m)
    \/ GeneralStep("t1")

SpecGeneral == GeneralInit /\ [][NextGeneral]_vars

\* the bullets 1..n of the records found
RECURSIVE BulletLines(_, _)
BulletLines(records, n) ==
    IF n = 0 THEN ""
    ELSE BulletLines(records, n - 1) \o "- " \o
         (IF "memory" \in DOMAIN records[n] THEN records[n]["memory"] ELSE "") \o "\n"

\* C16: when the general-conversation path calls the LLM, the message list is: the
\* system message (the persona text, and the records of the one memory search made
\* with limit 3 as bullets), then the last 5 Turns of the user's sequence as it
\* stands at the call (all of them when there are fewer), oldest first, then the
\* current message as a user entry; the list has at most 7 entries
C16_MessageList ==
    Returned => \A i \in LLMCalls :
        LET msgs == last_op.trace[i].messages
            all == History(last_op.user_id)
            seq == SubSeq(all, 1, Len(all) - 1)
            k == IF Len(seq) < 5 THEN Len(seq) ELSE 5
        IN  /\ Len(msgs) = k + 2
            /\ Len(msgs) <= 7
            /\ msgs[1].role = "system"
            /\ Cardinality(Searches) = 1
            /\ \A j \in Searches :
                  LET found == last_op.trace[j]
                  IN  /\ j < i
                      /\ found.query = last_op.message
                      /\ found.limit = 3
                      /\ msgs[1].content =
                            system_prompt \o
                            (IF found.result = <<>> THEN ""
                             ELSE "\n\nRelevant information about the user:\n" \o
                                  BulletLines(found.result, Len(found.result)))
            /\ \A j \in 1..k :
                  msgs[1 + j] = [role |-> seq[Len(seq) - k + j].role,
                                 content |-> seq[Len(seq) - k + j].content]
            /\ msgs[k + 2] = [role |-> "user", content |-> last_op.message]

\* the LLM has been called for a user whose sequence held seven Turns, with a
\* list of seven entries whose first history entry is the third Turn
C16_Witness ==
    /\ Returned
    /\ Len(last_op.before) = 6
    /\ \E i \in LLMCalls :
          /\ Len(last_op.trace[i].messages) = 7
          /\ last_op.trace[i].messages[2] = [role |-> "user", content |-> "Question 2"]

----------------------------------------------------------------------------
(* format_event and format_events_list alone (SpecFormat) *)

MaxEvents == 2       \* events in a list given to format_events_list

\* a description of exactly 100 characters
Hundred ==
    "1234567890123456789012345678901234567890123456789012345678901234567890" \o
    "123456789012345678901234567890"

\* the 'start' and 'end' of an event: timed, all-day, without a start, with a
\* dateTime that is no ISO string, with an end that has no dateTime
EventTimes ==
    {[start |-> [dateTime |-> "2024-01-15T09:00:00Z"],
      end |-> [dateTime |-> "2024-01-15T13:30:00Z"]],
     [start |-> [date |-> "2024-01-16"], end |-> [date |-> "2024-01-17"]],
     [end |-> [date |-> "2024-01-17"]],
     [start |-> [dateTime |-> "tomorrow morning"],
      end |-> [dateTime |-> "2024-01-15T13:30:00Z"]],
     [start |-> [dateTime |-> "2024-01-15T00:05:00+02:00"],
      end |-> [date |-> "2024-01-16"]]}

EventDescriptions ==
    {"", "No description", "Bring notes", Hundred, Hundred \o "1",
     Hundred \o "123456789012345678901234567890"}

\* the events given to format_event
EventPool ==
    {times @@ title @@ place @@ about :
        times \in EventTimes,
        title \in {<<>>, [summary |-> "Lecture"]},
        place \in {<<>>, [location |-> "Room 1"]},
        about \in {<<>>} \cup {[description |-> d] : d \in EventDescriptions}}

\* the events the lists given to format_events_list are made of
ListPool ==
    {[summary |-> "Lecture",
      start |-> [dateTime |-> "2024-01-15T09:00:00Z"],
      end |-> [dateTime |-> "2024-01-15T13:30:00Z"],
      location |-> "Room 1"],
     [start |-> [date |-> "2024-01-16"], end |-> [date |-> "2024-01-17"],
      description |-> "Holiday"],
     [summary |-> "Exam"],
     [summary |-> "Seminar", start |-> [dateTime |-> "tomorrow morning"],
      end |-> [dateTime |-> "2024-01-15T13:30:00Z"]],
     [summary |-> "Lab", start |-> [dateTime |-> "2024-01-15T12:00:00Z"],
      end |-> [date |-> "2024-01-16"], description |-> Hundred \o "1"]}

EventListInputs == UNION {[1..n -> ListPool] : n \in 0..MaxEvents}

FormatInit == Init /\ ~client /\ ~memory

\* format_event is called
FormatEvent ==
    /\ \E event \in EventPool :
          last_op' = [op |-> "format_event", event |-> event,
                      value |-> format_event(event)]
    /\ UNCHANGED <<conversation_history, service, client, memory, pc, frame, held,
                   trace, log, now, ncalls, message, intent>>

\* format_events_list is called
FormatEventsList ==
    /\ \E events \in EventListInputs :
          last_op' = [op |-> "format_events_list", events |-> events,
                      value |-> format_events_list(events)]
    /\ UNCHANGED <<conversation_history, service, client, memory, pc, frame, held,
                   trace, log, now, ncalls, message, intent>>

NextFormat == FormatEvent \/ FormatEventsList

SpecFormat == FormatInit /\ [][NextFormat]_vars

\* the string holds the part at position p
HoldsAt(s, p, part) ==
    /\ p >= 1
    /\ p + Len(part) - 1 <= Len(s)
    /\ SubSeq(s, p, p + Len(part) - 1) = part

EndsWith(s, part) == HoldsAt(s, Len(s) - Len(part) + 1, part)

\* the positions where a line of the string begins with the number i and ". "
EntryStarts(s, i) ==
    {p \in 2..Len(s) : SubSeq(s, p - 1, p - 1) = "\n" /\ HoldsAt(s, p, Str(i) \o ". ")}

\* C17: format_events_list answers "No upcoming events found." for an empty list;
\* for n >= 1 events its answer starts with "Found n event(s):" and holds, after
\* the heading, one entry per event and no other: entry i begins a line with the
\* number i and holds the formatting of the i-th event, the entries following one
\* another in the order of the list, also when format_event could not format an event
C17_ListEntries ==
    last_op.op = "format_events_list" =>
        LET events == last_op.events
            v == last_op.value
            n == Len(events)
            head == "Found " \o Str(n) \o " event(s):\n\n"
            entry(i) == Str(i) \o ". " \o format_event(events[i]) \o "\n"
        IN  /\ n = 0 => v = "No upcoming events found."
            /\ n >= 1 =>
                  /\ HoldsAt(v, 1, head)
                  /\ \A i \in 1..n :
                        /\ Cardinality(EntryStarts(v, i)) = 1
                        /\ \A p \in EntryStarts(v, i) :
                              /\ HoldsAt(v, p, entry(i))
                              /\ IF i = 1 THEN p = Len(head) + 1
                                 ELSE \E q \in EntryStarts(v, i - 1) :
                                         p = q + Len(entry(i - 1))
                              /\ i = n => p + Len(entry(i)) - 1 = Len(v)
                  /\ EntryStarts(v, 0) = {}
                  /\ EntryStarts(v, n + 1) = {}

\* a list of two events has been formatted, the second one being an event
\* format_event could not format
C17_Witness ==
    /\ last_op.op = "format_events_list"
    /\ Len(last_op.events) = 2
    /\ \E p \in 1..Len(last_op.value) :
          HoldsAt(last_op.value, p,
                  "\n2. Error formatting event: Invalid isoformat string: 'tomorrow morning'\n")

\* C18: format_event renders a description line only for an event with a
\* non-empty description, and the line then holds the whole description when it
\* has at most 100 characters and its first 100 characters followed by '...'
\* when it has more; it renders a location line only for an event with a
\* location; and the time line is 'All day (<date>)' exactly when the start of
\* the event has no dateTime
C18_EventLines ==
    last_op.op = "format_event" =>
        LET event == last_op.event
            v == last_op.value
            all_day == "start" \notin DOMAIN event \/ "dateTime" \notin DOMAIN event["start"]
        IN  /\ (\E p \in 1..Len(v) : HoldsAt(v, p, "   # ")) =>
                  /\ "description" \in DOMAIN event
                  /\ event["description"] # ""
                  /\ Len(event["description"]) <= 100 =>
                        EndsWith(v, "\n   # " \o event["description"] \o "\n")
                  /\ Len(event["description"]) > 100 =>
                        EndsWith(v, "\n   # " \o SubSeq(event["description"], 1, 100)
                                    \o "...\n")
            /\ (\E p \in 1..Len(v) : HoldsAt(v, p, "   @ ")) =>
                  /\ "location" \in DOMAIN event
                  /\ \E p \in 1..Len(v) :
                        HoldsAt(v, p, "\n   @ " \o event["location"] \o "\n")
            /\ (\E p \in 1..Len(v) : HoldsAt(v, p, "All day (")) <=> all_day
            /\ all_day =>
                  \E p \in 1..Len(v) :
                     HoldsAt(v, p, "**\n   All day (" \o
                                   (IF "start" \in DOMAIN event /\ "date" \in DOMAIN event["start"]
                                    THEN event["start"]["date"] ELSE "N/A") \o ")\n")

\* an all-day event with a location and a description of 101 characters has been
\* formatted, the description cut to 100 characters and '...'
C18_Witness ==
    /\ last_op.op = "format_event"
    /\ "location" \in DOMAIN last_op.event
    /\ "description" \in DOMAIN last_op.event
    /\ Len(last_op.event["description"]) = 101
    /\ last_op.value =
          "** No Title**\n   All day (2024-01-16)\n   @ Room 1\n   # " \o Hundred \o "...\n"

----------------------------------------------------------------------------
(* Failures of the external calls *)

\* the handler of thread t has just returned its response to chat
Answered(t) == pc[t] = "add_check" /\ frame[t].role = "assistant"

\* C21: when an external call made for a chat message failed (the event fetch,
\* the memory add, get or search, the LLM completion), the reply the handler
\* gives is a diagnostic that holds the message of the error
C21_FailuresReported ==
    \A t \in Threads : Answered(t) =>
        \A i \in DOMAIN frame[t].failed :
            /\ Contains(frame[t].response, "I encountered an error")
            /\ Contains(frame[t].response, frame[t].failed[i].err)

\* C25: when the event fetch of a calendar query fails with an HttpError,
\* get_events returns an empty list and the reply is the "schedule is clear"
\* message a calendar without events gives; the reply is the "I encountered an
\* error while accessing your calendar" string exactly when the fetch raised
\* another exception
C25_HttpErrorLooksEmpty ==
    \A t \in Threads :
        (Answered(t) /\ frame[t].intent = "calendar_query") =>
            LET n == Len(trace[t])
                fetch == trace[t][n]
                time_frame == select_window(frame[t].message).time_frame
                http == \E i \in DOMAIN frame[t].failed :
                           /\ frame[t].failed[i].call = "get_events"
                           /\ frame[t].failed[i].kind = "http_error"
                other == \E i \in DOMAIN frame[t].failed :
                            /\ frame[t].failed[i].call = "get_events"
                            /\ frame[t].failed[i].kind = "raise"
            IN  /\ http =>
                      /\ fetch.op = "get_events"
                      /\ fetch.result = Return(<<>>)
                      /\ frame[t].response =
                            "You don't have any events scheduled for " \o time_frame \o
                            ". Your schedule is clear!"
                /\ (fetch.op = "get_events" /\ fetch.result = Return(<<>>)) =>
                      frame[t].response =
                         "You don't have any events scheduled for " \o time_frame \o
                         ". Your schedule is clear!"
                /\ StartsWith(frame[t].response,
                              "I encountered an error while accessing your calendar")
                   <=> other

\* a calendar query has been answered that the week is clear, the fetch having
\* failed with an HttpError
C25_Witness ==
    /\ Answered("t1")
    /\ frame["t1"].failed =
          <<[call |-> "get_events", kind |-> "http_error", err |-> "HttpError 500"]>>
    /\ frame["t1"].response =
          "You don't have any events scheduled for this week. Your schedule is clear!"

----------------------------------------------------------------------------
(* What a chat call invokes and what it leaves behind (Spec) *)

\* the number of calls of an operation in a trace
Calls(tr, op) == Cardinality({i \in DOMAIN tr : tr[i].op = op})

\* no external operation is called twice in the trace, and a failed
\* authenticate is the last call made to the calendar
NoRetry(tr) ==
    /\ \A op \in ExternalOps : Calls(tr, op) <= 1
    /\ \A i \in DOMAIN tr :
          (tr[i].op = "authenticate" /\ ~tr[i].ok) =>
              \A j \in DOMAIN tr : j > i => tr[j].op \notin {"authenticate", "get_events"}

\* C22: within one chat call authenticate, the event fetch, the memory add, get
\* and search and the LLM completion are each invoked at most once, whether they
\* succeed or fail, and no calendar call follows a failed authenticate
C22_NoRetry ==
    /\ \A t \in Threads : NoRetry(trace[t])
    /\ Returned => NoRetry(last_op.trace)

\* a store-memory chat has returned after its add, its search and its LLM call
\* failed, each made once
C22_Witness ==
    /\ Returned
    /\ [i \in DOMAIN last_op.trace |-> last_op.trace[i].op] =
          <<"append", "detect_intent", "add_memory", "search_memories", "llm", "append">>
    /\ last_op.value =
          StorageRetry \o "\n\n" \o "I encountered an error generating a response: rate limit"
    /\ memory
    /\ \A i \in DOMAIN last_op.trace :
          last_op.trace[i].op = "search_memories" => last_op.trace[i].result = <<>>

\* the step is a step of a chat call
ChatStep == pc' # pc

\* the users other than the ones whose chat call takes the step
NotServed ==
    {u \in Users : \A t \in Threads : pc'[t] # pc[t] =>
                       (frame[t].user_id # u /\ frame'[t].user_id # u)}

\* the step leaves the sequences of the users not served as they are
OthersKept ==
    \A u \in NotServed :
        /\ (u \in DOMAIN conversation_history') <=> (u \in DOMAIN conversation_history)
        /\ History(u)' = History(u)

----------------------------------------------------------------------------
(* The life of a user's sequence (Spec) *)

\* reset_conversation(u) is the call made in this step
IsReset(u) ==
    /\ pc' = pc
    /\ last_op'.op = "reset_conversation"
    /\ last_op'.user_id = u

\* C24: no sequence exists at the start; a step that creates the sequence of a
\* user creates it empty; a step leaves an existing sequence as it is, or adds
\* one Turn at its end, the Turns it held keeping their place and their fields,
\* or, being reset_conversation for the user, leaves it empty; and
\* reset_conversation for a user without a sequence creates none
C24_StoreLifecycle ==
    /\ [](ncalls = 0 /\ last_op = NoOp => conversation_history = <<>>)
    /\ [][\A u \in Users :
             LET old == History(u)
                 new == History(u)'
             IN  /\ u \in DOMAIN conversation_history => u \in DOMAIN conversation_history'
                 /\ (u \notin DOMAIN conversation_history /\
                     u \in DOMAIN conversation_history') => new = <<>>
                 /\ \/ new = old
                    \/ /\ Len(new) = Len(old) + 1
                       /\ SubSeq(new, 1, Len(old)) = old
                    \/ /\ new = <<>>
                       /\ IsReset(u)
                 /\ (IsReset(u) /\ u \notin DOMAIN conversation_history) =>
                       u \notin DOMAIN conversation_history']_vars

\* reset_conversation has been called for a user without a sequence, the other
\* user having the four Turns of two chats
C24_Witness ==
    /\ last_op.op = "reset_conversation"
    /\ last_op.user_id = "u2"
    /\ "u2" \notin DOMAIN conversation_history
    /\ Len(History("u1")) = 4

\* C27: when no call is in progress, the sequence of every user has an even
\* number of Turns, the odd ones of role user and the even ones of role assistant
C27_RolesAlternate ==
    Idle =>
        \A u \in Users :
            /\ Len(History(u)) % 2 = 0
            /\ \A i \in DOMAIN History(u) :
                  History(u)[i].role = (IF i % 2 = 1 THEN "user" ELSE "assistant")

\* two chats of a user have returned after a reset, the first one with the
\* error string of the event fetch
C27_Witness ==
    /\ Idle
    /\ Len(History("u1")) = 2
    /\ History("u1")[1].timestamp = 2
    /\ History("u1")[2].content =
          "I encountered an error while accessing your calendar: timed out"

----------------------------------------------------------------------------
(* Authentication across calendar queries (SpecCalendar) *)

\* the authenticate calls of the call that has just returned
Auths == {i \in DOMAIN last_op.trace : last_op.trace[i].op = "authenticate"}

\* C30: authenticate is called only while no service is established; a service
\* once established stays; a calendar query goes from its test of the service
\* straight to the event fetch when the service is established and to one
\* authenticate when it is not, also after earlier queries failed to
\* authenticate; and a query that returns has authenticated at most once, leaving
\* the service established exactly when that call or an earlier one succeeded
C30_LazyStickyAuth ==
    /\ [](\A t \in Threads : pc[t] = "cal_auth" => ~service)
    /\ [][service => service']_vars
    /\ [][\A t \in Threads :
             (pc[t] = "cal_check" /\ pc'[t] # "cal_check") =>
                 pc'[t] = (IF service THEN "cal_fetch" ELSE "cal_auth")]_vars
    /\ [](Returned =>
             /\ Cardinality(Auths) <= 1
             /\ Auths = {} => (service /\ Fetches # {})
             /\ \A i \in Auths :
                   /\ last_op.trace[i].ok => (service /\ Fetches # {})
                   /\ ~last_op.trace[i].ok => (~service /\ Fetches = {}))

\* a second calendar query has returned after fetching without authenticating
C30_Witness ==
    /\ Returned
    /\ Len(last_op.before) = 2
    /\ Auths = {}
    /\ Fetches # {}
    /\ service

----------------------------------------------------------------------------
(* The windows of the event fetch (SpecWindow) *)

\* datetime.utcnow(): the instants the clock is read at; day counts the calendar days
Instants ==
    [day : {7, 8}, hour : {0, 12, 23}, minute : {0, 59}, second : {0, 59},
     microsecond : {0, 1, 999999}]

\* t + timedelta(days=n)
plus_days(t, n) == [t EXCEPT !.day = @ + n]

\* get_today_events: time_min and time_max of the fetch
today_window(utcnow) ==
    LET start_of_day == [utcnow EXCEPT !.hour = 0, !.minute = 0, !.second = 0,
                                       !.microsecond = 0]
    IN  [time_min |-> start_of_day, time_max |-> plus_days(start_of_day, 1)]

\* _handle_calendar_query, branch 'tomorrow': time_min and time_max of the fetch
tomorrow_window(utcnow) ==
    LET tomorrow == plus_days(utcnow, 1)
        tomorrow_start == [tomorrow EXCEPT !.hour = 0, !.minute = 0, !.second = 0]
    IN  [time_min |-> tomorrow_start, time_max |-> plus_days(tomorrow_start, 1)]

\* get_week_events: time_min and time_max of the fetch
week_window(utcnow) == [time_min |-> utcnow, time_max |-> plus_days(utcnow, 7)]

\* the window is computed for the branch at the instant the clock shows
ComputeWindow(branch) ==
    /\ \E utcnow \in Instants :
          last_op' = [op |-> "window", branch |-> branch, utcnow |-> utcnow,
                      window |-> CASE branch = "today" -> today_window(utcnow)
                                   [] branch = "tomorrow" -> tomorrow_window(utcnow)
                                   [] OTHER -> week_window(utcnow)]
    /\ UNCHANGED <<conversation_history, service, client, memory, pc, frame, held,
                   trace, log, now, ncalls, message, intent>>

NextWindow ==
    \/ ComputeWindow("today")
    \/ ComputeWindow("tomorrow")
    \/ ComputeWindow("next_7_days")

SpecWindow == FormatInit /\ [][NextWindow]_vars

\* midnight of the day
Midnight(day) == [day |-> day, hour |-> 0, minute |-> 0, second |-> 0, microsecond |-> 0]

\* C26: whatever the instant, the window of 'tomorrow' starts at 00:00:00 of the
\* next day, every field below the day being zero, and ends 24 hours later, as
\* the window of 'today' starts at 00:00:00 of the current day
C26_TomorrowFromMidnight ==
    /\ (last_op.op = "window" /\ last_op.branch = "today") =>
          /\ last_op.window.time_min = Midnight(last_op.utcnow.day)
          /\ last_op.window.time_max = Midnight(last_op.utcnow.day + 1)
    /\ (last_op.op = "window" /\ last_op.branch = "tomorrow") =>
          /\ last_op.window.time_min = Midnight(last_op.utcnow.day + 1)
          /\ last_op.window.time_max = Midnight(last_op.utcnow.day + 2)

----------------------------------------------------------------------------
(* C28: the current message in the list sent to the LLM *)

\* the entries of the list whose content is the text
Occurrences(msgs, text) == {j \in DOMAIN msgs : msgs[j].content = text}

\* C28: in every LLM call made from chat(u, m), m occurs exactly once in the
\* message list, and the history entries of the list (all but the system message
\* and the last entry) are the last Turns u's sequence held before the call to
\* chat, the user Turn just appended for m not being one of them
C28_CurrentMessageOnce ==
    Returned => \A i \in LLMCalls :
        LET msgs == last_op.trace[i].messages
            earlier == last_op.before
            window == SubSeq(msgs, 2, Len(msgs) - 1)
        IN  /\ Cardinality(Occurrences(msgs, last_op.message)) = 1
            /\ Len(window) <= Len(earlier)
            /\ \A j \in 1..Len(window) :
                  window[j] = [role |-> earlier[Len(earlier) - Len(window) + j].role,
                               content |-> earlier[Len(earlier) - Len(window) + j].content]

----------------------------------------------------------------------------
(* reset_conversation beside a chat call of the same user (SpecReset) *)

\* one message for each handler
ResetMessages ==
    {"What are my meetings today?", "Remember that I like mornings",
     "What do you know about me?", "Tell me a joke"}

\* u1's calls to chat are made one after the other; reset_conversation("u1")
\* is called from another thread at any moment
NextReset ==
    \/ \E m \in ResetMessages : ChatBegin("t1", "u1", m)
    \/ Step("t1")
    \/ reset_conversation("u1")

SpecReset == Init /\ [][NextReset]_vars

\* C29: at every moment, also when reset_conversation(u) runs between the two
\* appends of a chat call for u, a sequence that is not empty begins with a user
\* Turn and every assistant Turn comes right after a user Turn: no reset leaves
\* an assistant Turn without the user Turn of its exchange
C29_NoOrphanTurn ==
    \A u \in Users :
        LET h == History(u)
        IN  /\ h # <<>> => h[1].role = "user"
            /\ \A i \in DOMAIN h :
                  h[i].role = "assistant" => (i > 1 /\ h[i - 1].role = "user")

====
